---- MODULE Spec2Model ----
(***************************************************************************)
(* A model of the geometric kernel of ruxel: scalars of the generic type   *)
(* P, Vector3 / Point3 tuples, Matrix4 with determinant and inverse, Ray,  *)
(* Sphere::intersect and hit.                                              *)
(*                                                                         *)
(* A scalar is a pair <<n, d>>.  d > 0 is the exact rational n/d in lowest *)
(* terms; d = 0 is one of the three non-finite values of f64:              *)
(* <<0,0>> NaN, <<1,0>> +inf, <<-1,0>> -inf.  The scalar type P is either  *)
(* "int" (a Rust integer type: every value has d = 1, division truncates   *)
(* toward zero and panics on a zero divisor) or "f64" (division is exact   *)
(* on the rationals and follows IEEE 754 on a zero divisor; rounding and   *)
(* the sign of zero are not modelled).                                     *)
(***************************************************************************)
EXTENDS Integers, Sequences, FiniteSets, TLC

VARIABLES
  xs,      \* hit: the intersections collected so far
  hitOut,  \* hit: the outcome of the last call of hit on xs
  P,       \* the scalar type the generic code is instantiated with
  m,       \* a Matrix4 variable: the receiver of builder calls
  ret,     \* the value the last Matrix4 call returned (a temporary)
  calls,   \* history: the builder calls made since m was the identity
  detOut,  \* the outcome of determinant() on m
  invOut,  \* the outcome of inverse() on m
  sphere,  \* a Sphere
  ray,     \* a Ray
  ixs,     \* the outcome of Sphere::intersect(sphere, ray)
  tupL,    \* a Vector3 or Point3 variable, with its type
  tupOut   \* the last operation applied to tupL: its name, other operand, result

hitVars == <<xs, hitOut>>

matVars == <<m, ret, calls, detOut, invOut>>

sphereVars == <<sphere, ray, ixs>>

tupVars == <<tupL, tupOut>>

vars ==
  <<xs, hitOut, P, m, ret, calls, detOut, invOut, sphere, ray, ixs, tupL, tupOut>>

----------------------------------------------------------------------------
(* Bounds *)

MaxLen == 3

MaxT == 2

MaxCalls == 3

MaxEntry == 2

MaxK == 3

MaxY == 2

SqrtScale == 100
\* the coordinates of the tuples drawn are -MaxCoord .. MaxCoord
MaxCoord == 1

----------------------------------------------------------------------------
(* Scalars *)

Abs(n) == IF n < 0 THEN -n ELSE n

Sign(n) == IF n < 0 THEN -1 ELSE IF n = 0 THEN 0 ELSE 1

RECURSIVE GCD(_, _)
GCD(a, b) == IF b = 0 THEN a ELSE GCD(b, a % b)

Norm(n, d) ==
  IF d = 0 THEN <<Sign(n), 0>>
  ELSE LET g == GCD(Abs(n), Abs(d))
       IN  <<Sign(d) * (n \div g), Abs(d) \div g>>

Z(n) == <<n, 1>>

Q(n, d) == Norm(n, d)

NaN == <<0, 0>>

Inf == <<1, 0>>

NegInf == <<-1, 0>>

IsNaN(a) == a = NaN

IsFinite(a) == a[2] # 0

zero == Z(0)

one == Z(1)

(* Ordering comparisons of PartialOrd: every comparison with NaN is false. *)
Lt(a, b) ==
  /\ ~IsNaN(a)
  /\ ~IsNaN(b)
  /\ IF IsFinite(a) /\ IsFinite(b) THEN a[1] * b[2] < b[1] * a[2]
     ELSE IF IsFinite(a) THEN b = Inf
     ELSE IF IsFinite(b) THEN a = NegInf
     ELSE a = NegInf /\ b = Inf

Gt(a, b) == Lt(b, a)

Ge(a, b) == ~IsNaN(a) /\ ~IsNaN(b) /\ ~Lt(a, b)

Le(a, b) == Ge(b, a)

(* Arithmetic of Num.  On finite values it is exact; the non-finite       *)
(* values follow IEEE 754.                                                 *)
RNeg(a) == <<-a[1], a[2]>>

RAdd(a, b) ==
  IF IsFinite(a) /\ IsFinite(b)
  THEN IF a[2] = 1 /\ b[2] = 1 THEN <<a[1] + b[1], 1>>
       ELSE LET g == GCD(a[2], b[2])
            IN  Norm(a[1] * (b[2] \div g) + b[1] * (a[2] \div g),
                     (a[2] \div g) * b[2])
  ELSE IF IsNaN(a) \/ IsNaN(b) THEN NaN
  ELSE IF IsFinite(a) THEN b
  ELSE IF IsFinite(b) THEN a
  ELSE IF a = b THEN a ELSE NaN

RSub(a, b) == RAdd(a, RNeg(b))

RMul(a, b) ==
  IF IsFinite(a) /\ IsFinite(b)
  THEN IF a[2] = 1 /\ b[2] = 1 THEN <<a[1] * b[1], 1>>
       ELSE Norm(a[1] * b[1], a[2] * b[2])
  ELSE IF IsNaN(a) \/ IsNaN(b) \/ a[1] = 0 \/ b[1] = 0 THEN NaN
  ELSE <<Sign(a[1]) * Sign(b[1]), 0>>

RAbs(a) == <<Abs(a[1]), a[2]>>

(* Integer division of Rust: the quotient is truncated toward zero. *)
TruncDiv(x, y) == Sign(x) * Sign(y) * (Abs(x) \div Abs(y))

(* `a / b` for the scalar type P.  An integer P panics on a zero divisor   *)
(* (DivPanics); the value given for that case is never used.               *)
DivPanics(T, b) == T = "int" /\ b = zero

Div(T, a, b) ==
  IF T = "int"
  THEN IF b = zero THEN NaN ELSE Z(TruncDiv(a[1], b[1]))
  ELSE IF IsNaN(a) \/ IsNaN(b) THEN NaN
  ELSE IF IsFinite(a) /\ IsFinite(b)
       THEN IF b[1] = 0
            THEN <<Sign(a[1]), 0>>
            ELSE Norm(a[1] * b[2], a[2] * b[1])
  ELSE IF IsFinite(a) THEN zero
  ELSE IF IsFinite(b) THEN <<a[1] * (IF b[1] < 0 THEN -1 ELSE 1), 0>>
  ELSE NaN

(* EPSILON of geometry.rs, 0.0001. *)
EPSILON == Q(1, 10000)

(* `(a.to_f64() - b.to_f64()).abs() < EPSILON` *)
Near(a, b) == Lt(RAbs(RSub(a, b)), EPSILON)

----------------------------------------------------------------------------
(* Vector3 and Point3: homogeneous tuples *)

Tuple(x, y, z, w) == [x |-> x, y |-> y, z |-> z, w |-> w]

(* Tuple::new for Vector3: w = 0. *)
Vector3_new(x, y, z) == Tuple(x, y, z, zero)

(* Tuple::new for Point3: w = 1. *)
Point3_new(x, y, z) == Tuple(x, y, z, one)

Point3_zero == Tuple(zero, zero, zero, one)

----------------------------------------------------------------------------
(* Matrix4, with Matrix3 and Matrix2 for the determinant.  A matrix is     *)
(* indexed [row][col] from 0, as in the source.                            *)

Idx4 == 0..3

Matrix4_zero == [r \in Idx4 |-> [c \in Idx4 |-> zero]]

identity == [r \in Idx4 |-> [c \in Idx4 |-> IF r = c THEN one ELSE zero]]

(* Matrix4::new(Some(data)) from rows of integers. *)
Matrix4_new(data) == [r \in Idx4 |-> [c \in Idx4 |-> Z(data[r + 1][c + 1])]]

(* The index of the source matrix that lands on index i of a submatrix     *)
(* once row (or column) del is skipped.                                    *)
SkipIdx(i, del) == IF i < del THEN i ELSE i + 1

Matrix2_determinant(self) ==
  RSub(RMul(self[0][0], self[1][1]), RMul(self[0][1], self[1][0]))

Matrix3_submatrix(self, row_del, col_del) ==
  [r \in 0..1 |-> [c \in 0..1 |-> self[SkipIdx(r, row_del)][SkipIdx(c, col_del)]]]

Matrix3_minor(self, row_del, col_del) ==
  Matrix2_determinant(Matrix3_submatrix(self, row_del, col_del))

Matrix3_cofactor(self, row_del, col_del) ==
  IF (row_del + col_del) % 2 = 0
  THEN Matrix3_minor(self, row_del, col_del)
  ELSE RNeg(Matrix3_minor(self, row_del, col_del))

Matrix3_determinant(self) ==
  RAdd(RAdd(RAdd(zero,
                 RMul(self[0][0], Matrix3_cofactor(self, 0, 0))),
            RMul(self[0][1], Matrix3_cofactor(self, 0, 1))),
       RMul(self[0][2], Matrix3_cofactor(self, 0, 2)))

submatrix(self, row_del, col_del) ==
  [r \in 0..2 |-> [c \in 0..2 |-> self[SkipIdx(r, row_del)][SkipIdx(c, col_del)]]]

minor(self, row_del, col_del) ==
  Matrix3_determinant(submatrix(self, row_del, col_del))

cofactor_unsigned(self, row_del, col_del) == minor(self, row_del, col_del)

cofactor(self, row_del, col_del) ==
  IF (row_del + col_del) % 2 = 0
  THEN minor(self, row_del, col_del)
  ELSE RNeg(minor(self, row_del, col_del))

determinant(self) ==
  RAdd(RAdd(RAdd(RAdd(zero,
                      RMul(self[0][0], cofactor(self, 0, 0))),
                 RMul(self[0][1], cofactor(self, 0, 1))),
            RMul(self[0][2], cofactor(self, 0, 2))),
       RMul(self[0][3], cofactor(self, 0, 3)))

(* The outcome of a call that may panic. *)
Ok(v) == [kind |-> "ok", val |-> v]

Panic(v) == [kind |-> "panic", val |-> v]

NotCalled(v) == [kind |-> "none", val |-> v]

(* Matrix4Ops::inverse.  The entry [col][row] of the result is             *)
(* cofactor(row, col) / determinant, with the division of P.               *)
inverse_sentinel(T, self) ==
  LET det == determinant(self)
  IN  Ok([col \in Idx4 |-> [row \in Idx4 |->
            IF det = zero THEN zero ELSE Div(T, cofactor(self, row, col), det)]])

inverse(T, self) ==
  LET det == determinant(self)
  IN  IF det = zero
      THEN Panic(Matrix4_zero)
      ELSE Ok([col \in Idx4 |-> [row \in Idx4 |->
                 Div(T, cofactor(self, row, col), det)]])

(* Mul for Matrix4: row by column. *)
Mul(lhs, rhs) ==
  [row \in Idx4 |-> [col \in Idx4 |->
     RAdd(RAdd(RAdd(RMul(lhs[row][0], rhs[0][col]),
                    RMul(lhs[row][1], rhs[1][col])),
               RMul(lhs[row][2], rhs[2][col])),
          RMul(lhs[row][3], rhs[3][col]))]]

(* MulAssign for Matrix4: the loop writes self.m[row][col] in place, so the *)
(* sum for column col reads the entries of the row that the columns before *)
(* it have already overwritten.  This is the row after its first n columns *)
(* were assigned.                                                          *)
RECURSIVE mul_assign_cols(_, _, _)
mul_assign_cols(self_row, rhs, n) ==
  IF n = 0 THEN self_row
  ELSE LET cur == mul_assign_cols(self_row, rhs, n - 1)
           col == n - 1
       IN  [cur EXCEPT ![col] =
              RAdd(RAdd(RAdd(RMul(cur[0], rhs[0][col]),
                             RMul(cur[1], rhs[1][col])),
                        RMul(cur[2], rhs[2][col])),
                   RMul(cur[3], rhs[3][col]))]

mul_assign(self, rhs) == [row \in Idx4 |-> mul_assign_cols(self[row], rhs, 4)]

(* Matrix4Index *)
Matrix4Index == {"One", "Two", "Three", "Four"}

(* get_row: the assignments of each match arm, in their order, on a row of *)
(* zeros.                                                                  *)
get_row(self, index) ==
  LET row == [i \in Idx4 |-> zero]
  IN  CASE index = "One" ->
             [row EXCEPT ![0] = self[0][0], ![1] = self[0][1],
                         ![2] = self[0][2], ![3] = self[0][3]]
        [] index = "Two" ->
             [row EXCEPT ![1] = self[1][0], ![1] = self[1][1],
                         ![2] = self[1][2], ![3] = self[1][3]]
        [] index = "Three" ->
             [row EXCEPT ![0] = self[2][0], ![1] = self[2][1],
                         ![2] = self[2][2], ![3] = self[2][3]]
        [] index = "Four" ->
             [row EXCEPT ![0] = self[3][0], ![1] = self[3][1],
                         ![2] = self[3][2], ![3] = self[3][3]]

(* get_col, likewise. *)
get_col(self, index) ==
  LET col == [i \in Idx4 |-> zero]
  IN  CASE index = "One" ->
             [col EXCEPT ![0] = self[0][0], ![1] = self[1][0],
                         ![2] = self[2][0], ![3] = self[3][0]]
        [] index = "Two" ->
             [col EXCEPT ![1] = self[1][0], ![1] = self[1][1],
                         ![2] = self[1][2], ![3] = self[1][3]]
        [] index = "Three" ->
             [col EXCEPT ![0] = self[2][0], ![1] = self[2][1],
                         ![2] = self[2][2], ![3] = self[2][3]]
        [] index = "Four" ->
             [col EXCEPT ![0] = self[3][0], ![1] = self[3][1],
                         ![2] = self[3][2], ![3] = self[3][3]]

(* The row sum that every Matrix4 by tuple product computes. *)
RowDot(self, row, t) ==
  RAdd(RAdd(RAdd(RMul(self[row][0], t.x),
                 RMul(self[row][1], t.y)),
            RMul(self[row][2], t.z)),
       RMul(self[row][3], t.w))

(* self * t with the transpose of self. *)
MulTuple_transposed(self, t) ==
  Tuple(RAdd(RAdd(RAdd(RMul(self[0][0], t.x), RMul(self[1][0], t.y)),
                  RMul(self[2][0], t.z)), RMul(self[3][0], t.w)),
        RAdd(RAdd(RAdd(RMul(self[0][1], t.x), RMul(self[1][1], t.y)),
                  RMul(self[2][1], t.z)), RMul(self[3][1], t.w)),
        RAdd(RAdd(RAdd(RMul(self[0][2], t.x), RMul(self[1][2], t.y)),
                  RMul(self[2][2], t.z)), RMul(self[3][2], t.w)),
        RAdd(RAdd(RAdd(RMul(self[0][3], t.x), RMul(self[1][3], t.y)),
                  RMul(self[2][3], t.z)), RMul(self[3][3], t.w)))

(* Mul<Vector3> and Mul<Point3> for Matrix4: self * t. *)
MulTuple(self, t) ==
  Tuple(RowDot(self, 0, t), RowDot(self, 1, t), RowDot(self, 2, t), RowDot(self, 3, t))

(* t * self with the transpose of self: the sums run down the columns. *)
TupleMul_transposed(t, self) ==
  LET v_res(col) ==
        RAdd(RAdd(RAdd(RMul(self[0][col], t.x), RMul(self[1][col], t.y)),
                  RMul(self[2][col], t.z)),
             RMul(self[3][col], t.w))
  IN  Tuple(v_res(0), v_res(1), v_res(2), v_res(3))

(* Mul<Matrix4> for Vector3 and Point3: t * self.  Each component is       *)
(* `rhs.m[row][0] * self.x + rhs.m[row][1] * self.y + rhs.m[row][2] *      *)
(* self.z + rhs.m[row][3] * self.w`.                                       *)
TupleMul(t, self) ==
  LET v_res(row) ==
        RAdd(RAdd(RAdd(RMul(self[row][0], t.x), RMul(self[row][1], t.y)),
                  RMul(self[row][2], t.z)),
             RMul(self[row][3], t.w))
  IN  Tuple(v_res(0), v_res(1), v_res(2), v_res(3))

(* PartialEq for Matrix4 (and Matrix4Ops::equal). *)
Matrix4_eq(a, b) ==
  \A i \in Idx4 :
    /\ Near(a[i][0], b[i][0])
    /\ Near(a[i][1], b[i][1])
    /\ Near(a[i][2], b[i][2])
    /\ Near(a[i][3], b[i][3])

(* CoordInit::equal for Point3: x, y, z and w. *)
Point3_equal(a, b) ==
  Near(a.x, b.x) /\ Near(a.y, b.y) /\ Near(a.z, b.z) /\ Near(a.w, b.w)

(* CoordInit::equal for Vector3: x, y and z. *)
Vector3_equal(a, b) ==
  Near(a.x, b.x) /\ Near(a.y, b.y) /\ Near(a.z, b.z)

----------------------------------------------------------------------------
(* The transform builders of Matrix4Ops.  Each takes the value of the      *)
(* receiver and gives the value that the call stores in the receiver and   *)
(* returns.                                                                *)

(* `P::from(radians.to_f64().unwrap().cos()).unwrap()`.  An angle is named *)
(* by its value in radians.  For f64 the angles are those with a rational  *)
(* cosine and sine; for an integer P the cast truncates toward zero, so    *)
(* every whole number of radians other than 0 gives cosine = sine = 0.     *)
p_cos(T, radians) ==
  IF T = "int"
  THEN IF radians = "0" THEN one ELSE zero
  ELSE CASE radians = "0" -> one
         [] radians = "PI/2" -> zero
         [] radians = "PI" -> Z(-1)
         [] radians = "atan(4/3)" -> Q(3, 5)

p_sin(T, radians) ==
  IF T = "int"
  THEN zero
  ELSE CASE radians = "0" -> zero
         [] radians = "PI/2" -> one
         [] radians = "PI" -> zero
         [] radians = "atan(4/3)" -> Q(4, 5)

rotate_x(T, self, radians) ==
  LET res == [identity EXCEPT ![1][1] = p_cos(T, radians),
                              ![1][2] = RNeg(p_sin(T, radians)),
                              ![2][1] = p_sin(T, radians),
                              ![2][2] = p_cos(T, radians)]
  IN  Mul(res, self)

rotate_y(T, self, radians) ==
  LET res == [identity EXCEPT ![0][0] = p_cos(T, radians),
                              ![0][2] = p_sin(T, radians),
                              ![2][0] = RNeg(p_sin(T, radians)),
                              ![2][2] = p_cos(T, radians)]
  IN  Mul(res, self)

rotate_z(T, self, radians) ==
  LET res == [identity EXCEPT ![0][0] = p_cos(T, radians),
                              ![0][1] = RNeg(p_sin(T, radians)),
                              ![1][0] = p_sin(T, radians),
                              ![1][1] = p_cos(T, radians)]
  IN  Mul(res, self)

(* A scale that scales the weight too. *)
scale_weighted(self, x, y, z) ==
  LET res == [identity EXCEPT ![0][0] = x, ![1][1] = y, ![2][2] = z, ![3][3] = x]
  IN  Mul(res, self)

scale_right(self, x, y, z) ==
  LET res == [identity EXCEPT ![0][0] = x, ![1][1] = y, ![2][2] = z]
  IN  Mul(self, res)

scale(self, x, y, z) ==
  LET res == [identity EXCEPT ![0][0] = x, ![1][1] = y, ![2][2] = z]
  IN  Mul(res, self)

shear(self, xy, xz, yx, yz, zx, zy) ==
  LET res == [identity EXCEPT ![0][1] = xy, ![0][2] = xz,
                              ![1][0] = yx, ![1][2] = yz,
                              ![2][0] = zx, ![2][1] = zy]
  IN  Mul(res, self)

(* A transpose that returns the transposed copy and multiplies nothing. *)
transpose_pure(self) == [r \in Idx4 |-> [c \in Idx4 |-> self[c][r]]]

transpose(self) ==
  LET res == [r \in Idx4 |-> [c \in Idx4 |-> self[c][r]]]
  IN  Mul(res, self)

(* translate with the offsets in the last row instead of the last column. *)
translate_transposed(self, x, y, z) ==
  LET res == [identity EXCEPT ![3][0] = x, ![3][1] = y, ![3][2] = z]
  IN  Mul(res, self)

translate_right(self, x, y, z) ==
  LET res == [identity EXCEPT ![0][3] = x, ![1][3] = y, ![2][3] = z]
  IN  Mul(self, res)

translate(self, x, y, z) ==
  LET res == [identity EXCEPT ![0][3] = x, ![1][3] = y, ![2][3] = z]
  IN  Mul(res, self)

----------------------------------------------------------------------------
(* Ray *)

Ray_new(origin, direction) == [origin |-> origin, direction |-> direction]

(* Rays::transform: mat * origin and mat * direction. *)
Ray_transform(r0, mat) ==
  [origin |-> MulTuple(mat, r0.origin),
   direction |-> MulTuple(mat, r0.direction)]

(* Sub for Point3: the difference of two points is a vector, w = 0. *)
Point3_sub(lhs, rhs) ==
  Tuple(RSub(lhs.x, rhs.x), RSub(lhs.y, rhs.y), RSub(lhs.z, rhs.z), zero)

(* Vector::dot, the generic dot product that Sphere::intersect calls. *)
dot(lhs, rhs) == RAdd(RMul(lhs.x, rhs.x), RMul(lhs.w, rhs.w))

(* VecOps::dot, the dot product of Vector3<f64>. *)
VecOps_dot(lhs, rhs) ==
  RAdd(RAdd(RMul(lhs.x, rhs.x), RMul(lhs.y, rhs.y)), RMul(lhs.z, rhs.z))

----------------------------------------------------------------------------
(* Tuple arithmetic of Vector3<f64> and Point3<f64>.  A tuple is the       *)
(* record of its four components; which of the two types it has is known   *)
(* to the caller, as it is to the compiler.                                *)

(* CoordInit::new(Axis::XYZW(x, y, z, w)), for Vector3 and for Point3. *)
Vector3_xyzw(x, y, z, w) == Tuple(x, y, z, w)

Point3_xyzw(x, y, z, w) == Tuple(x, y, z, w)

(* Add<Point3> for Vector3 and Add<Vector3> for Point3: a Point3. *)
Vector3_add_Point3(lhs, rhs) ==
  Tuple(RAdd(lhs.x, rhs.x), RAdd(lhs.y, rhs.y), RAdd(lhs.z, rhs.z),
        RAdd(lhs.w, rhs.w))

(* A point moved against the vector. *)
Point3_against_Vector3(lhs, rhs) ==
  Tuple(RSub(lhs.x, rhs.x), RSub(lhs.y, rhs.y), RSub(lhs.z, rhs.z),
        RAdd(lhs.w, rhs.w))

Point3_add_Vector3(lhs, rhs) ==
  Tuple(RAdd(lhs.x, rhs.x), RAdd(lhs.y, rhs.y), RAdd(lhs.z, rhs.z),
        RAdd(lhs.w, rhs.w))

(* Add for Vector3: `w: 0.0`. *)
Vector3_add(lhs, rhs) ==
  Tuple(RAdd(lhs.x, rhs.x), RAdd(lhs.y, rhs.y), RAdd(lhs.z, rhs.z), zero)

(* Sub for Vector3: `w: 0.0`. *)
Vector3_sub(lhs, rhs) ==
  Tuple(RSub(lhs.x, rhs.x), RSub(lhs.y, rhs.y), RSub(lhs.z, rhs.z), zero)

(* Sub<Vector3> for Point3: `w: self.w`. *)
Point3_sub_Vector3(lhs, rhs) ==
  Tuple(RSub(lhs.x, rhs.x), RSub(lhs.y, rhs.y), RSub(lhs.z, rhs.z), lhs.w)

(* Neg for Vector3: `w: 0.0`. *)
Vector3_neg(t) == Tuple(RNeg(t.x), RNeg(t.y), RNeg(t.z), zero)

(* Neg for Point3: `w: -self.w`. *)
Point3_neg(t) == Tuple(RNeg(t.x), RNeg(t.y), RNeg(t.z), RNeg(t.w))

(* Mul<f64> for Vector3: `w: 0.0`. *)
Vector3_mul(t, rhs) == Tuple(RMul(t.x, rhs), RMul(t.y, rhs), RMul(t.z, rhs), zero)

(* Point * s that leaves the weight alone. *)
Point3_mul_unweighted(t, rhs) ==
  Tuple(RMul(t.x, rhs), RMul(t.y, rhs), RMul(t.z, rhs), t.w)

(* Mul<f64> for Point3: `w: self.w * rhs`. *)
Point3_mul(t, rhs) ==
  Tuple(RMul(t.x, rhs), RMul(t.y, rhs), RMul(t.z, rhs), RMul(t.w, rhs))

(* Div<f64> for Vector3: `w: 0.0`. *)
Vector3_div(t, rhs) ==
  Tuple(Div("f64", t.x, rhs), Div("f64", t.y, rhs), Div("f64", t.z, rhs), zero)

(* Div<f64> for Point3: `w: self.w / rhs`. *)
Point3_div(t, rhs) ==
  Tuple(Div("f64", t.x, rhs), Div("f64", t.y, rhs), Div("f64", t.z, rhs),
        Div("f64", t.w, rhs))

(* Rays::position: `ray.origin + ray.direction * t`. *)
Ray_position(r0, t) == Point3_add_Vector3(r0.origin, Vector3_mul(r0.direction, t))

----------------------------------------------------------------------------
(* Intersection and hit *)

intersection(t, object) == [t |-> t, object |-> object]

NoIntxn == intersection(zero, 0)

None == [kind |-> "None", val |-> NoIntxn]

Some(i) == [kind |-> "Some", val |-> i]

Panicked == [kind |-> "panic", val |-> NoIntxn]

Pending == [kind |-> "pending", val |-> NoIntxn]

(* The test of hit on one entry, `ixn.t >= num::zero()`. *)
visible_strict(t) == Gt(t, zero)

visible(t) == Ge(t, zero)

(* The scan of hit: the loop state (min, id, flag) after the first i       *)
(* entries.  Positions are 1-based here, 0-based in the source.            *)
RECURSIVE hitScan(_, _)
hitScan(s, i) ==
  IF i = 0 THEN [min |-> s[1].t, id |-> 1, flag |-> FALSE]
  ELSE LET p == hitScan(s, i - 1)
           ixn == s[i]
       IN  IF visible(ixn.t)
           THEN IF Gt(p.min, ixn.t)
                THEN [min |-> ixn.t, id |-> i, flag |-> TRUE]
                ELSE [min |-> p.min, id |-> p.id, flag |-> TRUE]
           ELSE p

hit(s) ==
  IF Len(s) = 0 THEN Panicked
  ELSE LET r == hitScan(s, Len(s))
       IN  IF ~r.flag THEN None ELSE Some(s[r.id])

----------------------------------------------------------------------------
(* Sphere *)

Sphere_new(id) ==
  [id |-> id, name |-> "sphere", origin |-> Point3_zero, radius |-> one,
   transform |-> identity]

set_transform(self, mat) == [self EXCEPT !.transform = mat]

(* The largest k in lo..hi-1 with k * k <= n, given lo * lo <= n < hi * hi. *)
RECURSIVE ISqrtIn(_, _, _)
ISqrtIn(n, lo, hi) ==
  IF hi - lo <= 1 THEN lo
  ELSE LET mid == (lo + hi) \div 2
       IN  IF mid * mid <= n THEN ISqrtIn(n, mid, hi) ELSE ISqrtIn(n, lo, mid)

ISqrt(n) == ISqrtIn(n, 0, IF n < 46340 THEN n + 1 ELSE 46340)

(* `P::from(x.to_f64().unwrap().sqrt()).unwrap()` for x >= 0.  The cast    *)
(* to an integer P truncates.  For f64 the root is exact when it is        *)
(* rational, else it is cut to a multiple of 1/SqrtScale.                  *)
Sqrt(T, x) ==
  IF T = "int" THEN Z(ISqrt(x[1]))
  ELSE IF ~IsFinite(x) THEN x
  ELSE LET rn == ISqrt(x[1])
           rd == ISqrt(x[2])
       IN  IF rn * rn = x[1] /\ rd * rd = x[2]
           THEN <<rn, rd>>
           ELSE Norm(ISqrt((x[1] * SqrtScale * SqrtScale) \div x[2]), SqrtScale)

(* Shape::intersect for Sphere, from its last statement to its first.      *)
(* The two roots `(-b -+ sqrt(discriminant)) / (2 * a)`.                   *)
intersect_roots(T, shape, a, b, root) ==
  Ok(<<intersection(Div(T, RSub(RNeg(b), root), RMul(Z(2), a)), shape),
       intersection(Div(T, RAdd(RNeg(b), root), RMul(Z(2), a)), shape)>>)

(* `if discriminant < zero { return vec![] }`, then the roots; an integer  *)
(* P panics when it divides by a zero `2 * a`.                             *)
intersect_discriminant(T, shape, a, b, discriminant) ==
  IF Lt(discriminant, zero) THEN Ok(<<>>)
  ELSE IF DivPanics(T, RMul(Z(2), a)) THEN Panic(<<>>)
  ELSE intersect_roots(T, shape, a, b, Sqrt(T, discriminant))

(* `discriminant = b * b - 4 * a * c` *)
intersect_quadratic(T, shape, a, b, c) ==
  intersect_discriminant(T, shape, a, b,
                         RSub(RMul(b, b), RMul(RMul(Z(4), a), c)))

(* The coefficients a, b, c from the generic dot product. *)
intersect_coefficients(T, shape, direction, sphere_to_ray) ==
  intersect_quadratic(T, shape,
                      dot(direction, direction),
                      RMul(Z(2), dot(direction, sphere_to_ray)),
                      RSub(dot(sphere_to_ray, sphere_to_ray), one))

(* `sphere_to_ray = r.origin - Point3::zero()` for the transformed ray r. *)
intersect_ray(T, shape, r) ==
  intersect_coefficients(T, shape, r.direction,
                         Point3_sub(r.origin, Point3_zero))

(* An intersect that goes on with whatever inverse handed back. *)
intersect_unchecked(T, shape, r0, inv) ==
  intersect_ray(T, shape, Ray_transform(r0, inv.val))

(* `r = Ray::transform(r, shape.transform.inverse())`; the panic of        *)
(* inverse ends the call.                                                  *)
intersect_inverse(T, shape, r0, inv) ==
  IF inv.kind = "panic" THEN Panic(<<>>)
  ELSE intersect_ray(T, shape, Ray_transform(r0, inv.val))

intersect(T, shape, r0) ==
  intersect_inverse(T, shape, r0, inverse(T, shape.transform))

(* The Sphere of shapes/core.rs, for f64 only: a center and a radius.      *)
(* Sphere::new_unit()                                                      *)
core_new_unit == [center |-> Point3_new(zero, zero, zero), radius |-> one]

core_None == [kind |-> "None", val |-> <<zero, zero>>]

core_Some(t1, t2) == [kind |-> "Some", val |-> <<t1, t2>>]

(* `(-b -+ discriminant.sqrt()) / 2.0 * a`: the quotient by 2.0, times a. *)
core_roots(a, b, root) ==
  core_Some(RMul(Div("f64", RSub(RNeg(b), root), Z(2)), a),
            RMul(Div("f64", RAdd(RNeg(b), root), Z(2)), a))

(* `discriminant = b * b - 4.0 * a * c`, then `if discriminant < 0.0`. *)
core_quadratic(a, b, c) ==
  LET discriminant == RSub(RMul(b, b), RMul(RMul(Z(4), a), c))
  IN  IF Lt(discriminant, zero) THEN core_None
      ELSE core_roots(a, b, Sqrt("f64", discriminant))

(* Sphere::intersect of shapes/core.rs.  Vector3::dot on Vector3<f64> in   *)
(* that module is VecOps::dot, the only dot a public trait provides.       *)
core_intersect(self, r0) ==
  LET sphere_to_ray == Point3_sub(r0.origin, self.center)
  IN  core_quadratic(VecOps_dot(r0.direction, r0.direction),
                     RMul(Z(2), VecOps_dot(r0.direction, sphere_to_ray)),
                     RSub(VecOps_dot(sphere_to_ray, sphere_to_ray), one))

----------------------------------------------------------------------------
(* The values of the variables a specification does not use. *)

ScalarTypes == {"int", "f64"}

HitIdle == xs = <<>> /\ hitOut = Pending

MatIdle ==
  /\ m = identity
  /\ ret = identity
  /\ calls = <<>>
  /\ detOut = NotCalled(zero)
  /\ invOut = NotCalled(Matrix4_zero)

SphereIdle ==
  /\ sphere = Sphere_new(1)
  /\ ray = Ray_new(Point3_zero, Vector3_new(zero, zero, one))
  /\ ixs = NotCalled(<<>>)

(* A typed tuple, and the record of an operation on one. *)
Vector3(val) == [ty |-> "Vector3", val |-> val]

Point3(val) == [ty |-> "Point3", val |-> val]

Applied(op, rhs, val) == [op |-> op, rhs |-> rhs, val |-> val]

TupIdle ==
  /\ tupL = Point3(Point3_zero)
  /\ tupOut = Applied("none", zero, zero)

----------------------------------------------------------------------------
(* The caller of hit: it collects intersections one at a time and may ask  *)
(* for the visible one at any moment.                                      *)

TVals == {Z(n) : n \in (-MaxT)..MaxT} \cup {NaN}

HitInit ==
  /\ HitIdle
  /\ P = "f64"
  /\ MatIdle
  /\ SphereIdle
  /\ TupIdle

Collect ==
  /\ Len(xs) < MaxLen
  /\ \E t \in TVals : xs' = Append(xs, intersection(t, Len(xs) + 1))
  /\ hitOut' = Pending
  /\ UNCHANGED <<P, matVars, sphereVars, tupVars>>

Hit ==
  /\ hitOut = Pending
  /\ hitOut' = hit(xs)
  /\ xs' = xs
  /\ UNCHANGED <<P, matVars, sphereVars, tupVars>>

HitNext == Collect \/ Hit

SpecHit == HitInit /\ [][HitNext]_vars

----------------------------------------------------------------------------
(* A caller of Sphere::intersect: it sets the transform of a sphere,       *)
(* builds a ray and intersects them.                                       *)

Transforms ==
  {scale(identity, Z(k), Z(k), Z(k)) : k \in 1..MaxK}
    \cup {translate(identity, Z(5), zero, zero), scale(identity, zero, one, one),
          Matrix4_zero}

Origins ==
  {Point3_new(Z(x), Z(y), Z(z)) : x \in {0, 1}, y \in 0..MaxY, z \in {-5, 0, 5}}

Directions ==
  {Vector3_new(Z(d[1]), Z(d[2]), Z(d[3])) :
     d \in {<<0, 0, 1>>, <<1, 0, 0>>, <<0, 0, 2>>, <<1, 1, 0>>}}

SphereInit ==
  /\ P \in ScalarTypes
  /\ SphereIdle
  /\ TupIdle
  /\ HitIdle
  /\ MatIdle

SetTransform ==
  /\ \E mat \in Transforms :
       /\ mat # sphere.transform
       /\ sphere' = set_transform(sphere, mat)
  /\ ixs' = NotCalled(<<>>)
  /\ UNCHANGED <<P, ray, hitVars, matVars, tupVars>>

NewRay ==
  /\ \E o \in Origins, d \in Directions :
       /\ Ray_new(o, d) # ray
       /\ ray' = Ray_new(o, d)
  /\ ixs' = NotCalled(<<>>)
  /\ UNCHANGED <<P, sphere, hitVars, matVars, tupVars>>

Intersect ==
  /\ ixs.kind = "none"
  /\ ixs' = intersect(P, sphere, ray)
  /\ UNCHANGED <<P, sphere, ray, hitVars, matVars, tupVars>>

SphereNext == SetTransform \/ NewRay \/ Intersect

SpecSphere == SphereInit /\ [][SphereNext]_vars

----------------------------------------------------------------------------
(* A caller of the Matrix4 builders.  A builder is called either on the    *)
(* variable m (`m.scale(..)`) or, chained, on the value the previous call  *)
(* returned (`m.rotate_x(..).scale(..)`): then the temporary ret is the    *)
(* receiver and m is not touched.                                          *)

TranslateArgs == {<<10, 5, 7>>}

ScaleArgs == {<<5, 5, 5>>, <<2, 3, 4>>}

ShearArgs == {<<1, 0, 0, 0, 2, 0>>}

Angles(T) == IF T = "int" THEN {"0", "1"} ELSE {"PI/2", "atan(4/3)"}

(* rotate_y and rotate_z are called with one angle, not a multiple of a    *)
(* quarter turn for f64.                                                   *)
SkewAngles(T) == IF T = "int" THEN {"1"} ELSE {"atan(4/3)"}

Targets == {"m", "ret"}

Receiver(tgt) == IF tgt = "m" THEN m ELSE ret

Call(tgt, op, args, angle) ==
  [tgt |-> tgt, op |-> op, args |-> [i \in DOMAIN args |-> Z(args[i])],
   angle |-> angle]

(* Every call of cs was made on the variable m, none on a returned copy. *)
AllOnM(cs) == \A i \in 1..Len(cs) : cs[i].tgt = "m"

(* A builder whose chained calls would write through to the variable m. *)
Store_through(tgt, value, call) ==
  /\ Len(calls) < MaxCalls
  /\ tgt = "ret" => calls # <<>>
  /\ ret' = value
  /\ m' = value
  /\ calls' = Append(calls, call)
  /\ UNCHANGED <<P, detOut, invOut, hitVars, sphereVars, tupVars>>

(* What every builder does with the value it computed: `*self = ..; *self` *)
Store(tgt, value, call) ==
  /\ Len(calls) < MaxCalls
  /\ tgt = "ret" => calls # <<>>
  /\ ret' = value
  /\ m' = IF tgt = "m" THEN value ELSE m
  /\ calls' = Append(calls, call)
  /\ UNCHANGED <<P, detOut, invOut, hitVars, sphereVars, tupVars>>

MatInit ==
  /\ P \in ScalarTypes
  /\ MatIdle
  /\ HitIdle
  /\ SphereIdle
  /\ TupIdle

Translate ==
  \E tgt \in Targets, a \in TranslateArgs :
    Store(tgt, translate(Receiver(tgt), Z(a[1]), Z(a[2]), Z(a[3])),
          Call(tgt, "translate", a, "0"))

Scale ==
  \E tgt \in Targets, a \in ScaleArgs :
    Store(tgt, scale(Receiver(tgt), Z(a[1]), Z(a[2]), Z(a[3])),
          Call(tgt, "scale", a, "0"))

RotateX ==
  \E tgt \in Targets, r \in Angles(P) :
    Store(tgt, rotate_x(P, Receiver(tgt), r), Call(tgt, "rotate_x", <<>>, r))

RotateY ==
  \E tgt \in Targets, r \in SkewAngles(P) :
    Store(tgt, rotate_y(P, Receiver(tgt), r), Call(tgt, "rotate_y", <<>>, r))

RotateZ ==
  \E tgt \in Targets, r \in SkewAngles(P) :
    Store(tgt, rotate_z(P, Receiver(tgt), r), Call(tgt, "rotate_z", <<>>, r))

Shear ==
  \E tgt \in Targets, a \in ShearArgs :
    Store(tgt, shear(Receiver(tgt), Z(a[1]), Z(a[2]), Z(a[3]),
                     Z(a[4]), Z(a[5]), Z(a[6])),
          Call(tgt, "shear", a, "0"))

(* `m = Matrix4::identity()` / to_identity: a fresh receiver. *)
ToIdentity ==
  /\ calls # <<>>
  /\ m' = identity
  /\ ret' = identity
  /\ calls' = <<>>
  /\ UNCHANGED <<P, detOut, invOut, hitVars, sphereVars, tupVars>>

MatNext ==
  Translate \/ Scale \/ RotateX \/ RotateY \/ RotateZ \/ Shear \/ ToIdentity

SpecMat == MatInit /\ [][MatNext]_vars

----------------------------------------------------------------------------
(* A caller of Matrix4::new, determinant and inverse. *)

(* The matrices of matrix/tests.rs. *)
Fixtures ==
  { <<<<-2, -8, 3, 5>>, <<-3, 1, 7, 3>>, <<1, 2, -9, 6>>, <<-6, 7, 7, -9>>>>,
    <<<<6, 4, 4, 4>>, <<5, 5, 7, 6>>, <<4, -9, 3, -7>>, <<9, 1, 7, -6>>>>,
    <<<<-4, 2, -2, -3>>, <<9, 6, 2, 6>>, <<0, -5, 1, -5>>, <<0, 0, 0, 0>>>>,
    <<<<8, -5, 9, 2>>, <<7, 5, 6, 1>>, <<-6, 0, 9, 6>>, <<-3, 0, -9, -4>>>>,
    <<<<9, 3, 0, 9>>, <<-5, -2, -6, -3>>, <<-4, 9, 6, 4>>, <<-7, 6, 6, 2>>>>,
    <<<<3, -9, 7, 3>>, <<3, -8, 2, -9>>, <<-4, 4, 4, 1>>, <<-6, 5, 1, 1>>>>,
    <<<<8, 2, 2, 2>>, <<3, -1, 7, 0>>, <<7, 0, 5, 4>>, <<6, -2, 0, 5>>>>,
    <<<<1, 0, 0, 0>>, <<0, 1, 0, 0>>, <<0, 0, 1, 0>>, <<0, 0, 0, 1>>>>,
    <<<<1, 2, 3, 4>>, <<2, 1, 2, 3>>, <<3, 2, 1, 2>>, <<4, 3, 2, 1>>>> }

Rows ==
  { <<1, 0, 0, 0>>, <<0, 2, 0, 0>>, <<0, 0, 1, 0>>, <<0, 0, 0, 1>>,
    <<1, 2, 0, -1>>, <<0, -1, 1, 2>> }

AlgInit ==
  /\ P \in ScalarTypes
  /\ MatIdle
  /\ HitIdle
  /\ SphereIdle
  /\ TupIdle

(* Matrix4::new(Some(data)): a fixture, a fixture with one entry changed,  *)
(* or four rows of Rows.  The caller builds one matrix and works on it.    *)
New ==
  /\ m = identity
  /\ detOut.kind = "none"
  /\ invOut.kind = "none"
  /\ \/ \E d \in Fixtures : m' = Matrix4_new(d)
     \/ \E d \in Fixtures, r \in Idx4, c \in Idx4, v \in (-MaxEntry)..MaxEntry :
          m' = [Matrix4_new(d) EXCEPT ![r][c] = Z(v)]
     \/ \E r0 \in Rows, r1 \in Rows, r2 \in Rows, r3 \in Rows :
          m' = Matrix4_new(<<r0, r1, r2, r3>>)
  /\ m' # m
  /\ ret' = m'
  /\ detOut' = NotCalled(zero)
  /\ invOut' = NotCalled(Matrix4_zero)
  /\ UNCHANGED <<P, calls, hitVars, sphereVars, tupVars>>

Determinant ==
  /\ detOut.kind = "none"
  /\ detOut' = Ok(determinant(m))
  /\ UNCHANGED <<P, m, ret, calls, invOut, hitVars, sphereVars, tupVars>>

Inverse ==
  /\ invOut.kind = "none"
  /\ invOut' = inverse(P, m)
  /\ UNCHANGED <<P, m, ret, calls, detOut, hitVars, sphereVars, tupVars>>

AlgNext == New \/ Determinant \/ Inverse

SpecAlg == AlgInit /\ [][AlgNext]_vars

----------------------------------------------------------------------------
(* A caller of the tuple arithmetic: it builds a Vector3 or a Point3 with  *)
(* one of the constructors and applies one operator to it.  The operators  *)
(* exist for f64 only.                                                     *)

Coords == {Z(n) : n \in (-MaxCoord)..MaxCoord}

Weights == {zero, one, Z(2)}

(* The tuples of the tests. *)
TupleFixtures ==
  { Vector3(Vector3_new(Z(1), Z(2), Z(3))),
    Vector3(Vector3_new(Z(2), Z(3), Z(4))),
    Vector3(Vector3_new(Z(2), Q(7, 2), Z(4))),
    Vector3(Vector3_new(Z(-3), Z(4), Z(5))),
    Vector3(Vector3_xyzw(Z(1), Z(2), Z(3), Z(1))),
    Vector3(Vector3_new(Z(1), Z(0), Z(0))),
    Point3(Point3_new(Z(-3), Z(4), Z(5))),
    Point3(Point3_new(Z(2), Z(3), Z(4))),
    Point3(Point3_new(Q(5, 2), Q(7, 2), Q(9, 2))) }

(* What Tuple::new and CoordInit::new(Axis::XYZW(..)) build. *)
TupleInputs ==
  {Vector3(Vector3_new(x, y, z)) : x \in Coords, y \in Coords, z \in Coords}
    \cup {Point3(Point3_new(x, y, z)) : x \in Coords, y \in Coords, z \in Coords}
    \cup {Vector3(Vector3_xyzw(x, y, z, w)) :
            x \in Coords, y \in Coords, z \in Coords, w \in Weights}
    \cup {Point3(Point3_xyzw(x, y, z, w)) :
            x \in Coords, y \in Coords, z \in Coords, w \in Weights}
    \cup TupleFixtures

(* The right operands of the binary operators. *)
Operands ==
  TupleFixtures
    \cup { Vector3(Vector3_xyzw(Z(1), Z(0), Z(-1), Z(1))),
           Point3(Point3_xyzw(Z(1), Z(2), Z(3), Z(2))) }

Scalars == {zero, one, Z(-1), Z(2), Z(-3), Q(1, 2)}

(* Differences below, at and above EPSILON. *)
Deltas ==
  {zero, Q(1, 20000), Q(-1, 20000), EPSILON, RNeg(EPSILON), Q(2, 10000)}

Components == {"x", "y", "z", "w"}

VecInit ==
  /\ P = "f64"
  /\ tupL \in TupleInputs
  /\ tupOut = Applied("none", zero, zero)
  /\ HitIdle
  /\ MatIdle
  /\ SphereIdle

(* One operator is applied to tupL; nothing else changes. *)
Apply(op, rhs, val) ==
  /\ tupOut.op = "none"
  /\ tupOut' = Applied(op, rhs, val)
  /\ UNCHANGED <<P, tupL, hitVars, matVars, sphereVars>>

Add ==
  \E r \in Operands :
    \/ /\ tupL.ty = "Vector3" /\ r.ty = "Vector3"
       /\ Apply("add", r, Vector3(Vector3_add(tupL.val, r.val)))
    \/ /\ tupL.ty = "Vector3" /\ r.ty = "Point3"
       /\ Apply("add", r, Point3(Vector3_add_Point3(tupL.val, r.val)))
    \/ /\ tupL.ty = "Point3" /\ r.ty = "Vector3"
       /\ Apply("add", r, Point3(Point3_add_Vector3(tupL.val, r.val)))

Sub ==
  \E r \in Operands :
    \/ /\ tupL.ty = "Vector3" /\ r.ty = "Vector3"
       /\ Apply("sub", r, Vector3(Vector3_sub(tupL.val, r.val)))
    \/ /\ tupL.ty = "Point3" /\ r.ty = "Point3"
       /\ Apply("sub", r, Vector3(Point3_sub(tupL.val, r.val)))
    \/ /\ tupL.ty = "Point3" /\ r.ty = "Vector3"
       /\ Apply("sub", r, Point3(Point3_sub_Vector3(tupL.val, r.val)))

Neg ==
  Apply("neg", zero,
        IF tupL.ty = "Vector3" THEN Vector3(Vector3_neg(tupL.val))
        ELSE Point3(Point3_neg(tupL.val)))

MulScalar ==
  \E s \in Scalars :
    Apply("mul", s,
          IF tupL.ty = "Vector3" THEN Vector3(Vector3_mul(tupL.val, s))
          ELSE Point3(Point3_mul(tupL.val, s)))

DivScalar ==
  \E s \in Scalars :
    Apply("div", s,
          IF tupL.ty = "Vector3" THEN Vector3(Vector3_div(tupL.val, s))
          ELSE Point3(Point3_div(tupL.val, s)))

(* Vector::dot, the generic implementation. *)
Dot ==
  \E r \in Operands :
    /\ tupL.ty = "Vector3" /\ r.ty = "Vector3"
    /\ Apply("dot", r, dot(tupL.val, r.val))

(* VecOps::dot, the implementation for Vector3<f64>. *)
VecOpsDot ==
  \E r \in Operands :
    /\ tupL.ty = "Vector3" /\ r.ty = "Vector3"
    /\ Apply("vecops_dot", r, VecOps_dot(tupL.val, r.val))

(* equal against another tuple of the same type: an operand, or tupL with  *)
(* one component moved.                                                    *)
Equal ==
  \E r \in Operands \cup
            {[tupL EXCEPT !.val[c] = RAdd(@, d)] : c \in Components, d \in Deltas} :
    /\ r.ty = tupL.ty
    /\ Apply("equal", r,
             IF tupL.ty = "Vector3" THEN Vector3_equal(tupL.val, r.val)
             ELSE Point3_equal(tupL.val, r.val))

(* == on two matrices: a fixture and the fixture with one entry moved. *)
MatrixEq ==
  \E d \in {f \in Fixtures : f[1][1] \in {-2, 8}},
     rc \in {<<0, 0>>, <<1, 3>>, <<2, 1>>, <<3, 3>>}, e \in Deltas :
    LET lhs == Matrix4_new(d)
        rhs == [lhs EXCEPT ![rc[1]][rc[2]] = RAdd(@, e)]
    IN  Apply("matrix_eq", [lhs |-> lhs, rhs |-> rhs], Matrix4_eq(lhs, rhs))

(* Ray::position(Ray::new(tupL, d), t) *)
Position ==
  \E d \in Operands, t \in Scalars :
    /\ tupL.ty = "Point3" /\ d.ty = "Vector3"
    /\ Apply("position", [direction |-> d.val, t |-> t],
             Point3(Ray_position(Ray_new(tupL.val, d.val), t)))

VecNext ==
  \/ Add \/ Sub \/ Neg \/ MulScalar \/ DivScalar
  \/ Dot \/ VecOpsDot \/ Equal \/ MatrixEq \/ Position

SpecVec == VecInit /\ [][VecNext]_vars

----------------------------------------------------------------------------
(* A caller that applies a matrix to a tuple: it builds a tuple, then a    *)
(* matrix (from data, or a translation of the identity), may invert the    *)
(* matrix, and multiplies.                                                 *)

ShiftArgs == {<<5, -3, 2>>, <<10, 5, 7>>, <<-1, 0, 2>>}

(* The tuples the scalar type T can hold: an integer type has no halves. *)
TuplesOf(T) ==
  IF T = "f64" THEN TupleInputs
  ELSE {t \in TupleInputs : \A c \in Components : t.val[c][2] = 1}

XformInit ==
  /\ P \in ScalarTypes
  /\ tupL \in TuplesOf(P)
  /\ tupOut = Applied("none", zero, zero)
  /\ HitIdle
  /\ MatIdle
  /\ SphereIdle

(* The matrix m3 of test_matrix_multiplication. *)
MulFixture == <<<<1, 2, 3, 4>>, <<2, 4, 4, 2>>, <<8, 6, 4, 1>>, <<0, 0, 0, 1>>>>

Fresh == m = identity /\ calls = <<>> /\ invOut.kind = "none" /\ tupOut.op = "none"

(* Matrix4::new(Some(data)) *)
XformNew ==
  /\ Fresh
  /\ \E d \in Fixtures \cup {MulFixture} : m' = Matrix4_new(d)
  /\ ret' = m'
  /\ UNCHANGED <<P, calls, detOut, invOut, hitVars, sphereVars, tupVars>>

(* m = Matrix4::identity().translate(a, b, c) *)
XformTranslate ==
  /\ Fresh
  /\ \E a \in ShiftArgs :
       Store("m", translate(m, Z(a[1]), Z(a[2]), Z(a[3])),
             Call("m", "translate", a, "0"))

(* tupL * m, for a Vector3 and for a Point3 *)
TimesMatrix ==
  Apply("tuple*matrix", m,
        [ty |-> tupL.ty, val |-> TupleMul(tupL.val, m)])

(* m * tupL *)
MatrixTimes ==
  Apply("matrix*tuple", m,
        [ty |-> tupL.ty, val |-> MulTuple(m, tupL.val)])

(* tupL * m.inverse(), once inverse has returned *)
TimesInverse ==
  /\ invOut.kind = "ok"
  /\ Apply("tuple*inverse", invOut.val,
           [ty |-> tupL.ty, val |-> TupleMul(tupL.val, invOut.val)])

XformNext ==
  \/ XformNew \/ XformTranslate \/ Inverse
  \/ TimesMatrix \/ MatrixTimes \/ TimesInverse

SpecXform == XformInit /\ [][XformNext]_vars

----------------------------------------------------------------------------
(* A caller of the Matrix4 accessors and products: it builds a matrix from *)
(* data and calls get_row, get_col, transpose, `*` or `*=` on it.          *)

(* m1 of test_matrix_transpose; m1 and m2 of test_matrix_multiplication. *)
TransposeFixture ==
  <<<<0, 9, 3, 0>>, <<9, 8, 0, 8>>, <<1, 8, 5, 3>>, <<0, 0, 5, 8>>>>

ProductFixtures ==
  { <<<<1, 2, 3, 4>>, <<5, 6, 7, 8>>, <<9, 8, 7, 6>>, <<5, 4, 3, 2>>>>,
    <<<<-2, 1, 2, 3>>, <<3, 2, 1, -1>>, <<4, 3, 6, 5>>, <<1, 2, 7, 8>>>> }

AccessMatrices ==
  {Matrix4_new(d) : d \in Fixtures \cup ProductFixtures
                               \cup {MulFixture, TransposeFixture}}

AccessInit ==
  /\ P \in ScalarTypes
  /\ m \in AccessMatrices
  /\ ret = m
  /\ calls = <<>>
  /\ detOut = NotCalled(zero)
  /\ invOut = NotCalled(Matrix4_zero)
  /\ HitIdle
  /\ SphereIdle
  /\ TupIdle

GetRow == \E index \in Matrix4Index : Apply("get_row", index, get_row(m, index))

GetCol == \E index \in Matrix4Index : Apply("get_col", index, get_col(m, index))

(* m.transpose(): `*self = res * *self; *self` *)
Transpose ==
  /\ tupOut.op = "none"
  /\ m' = transpose(m)
  /\ ret' = m'
  /\ tupOut' = Applied("transpose", m, m')
  /\ UNCHANGED <<P, tupL, calls, detOut, invOut, hitVars, sphereVars>>

(* m * b *)
Times == \E b \in AccessMatrices : Apply("mul", b, Mul(m, b))

(* m *= b *)
TimesAssign ==
  /\ tupOut.op = "none"
  /\ \E b \in AccessMatrices :
       /\ m' = mul_assign(m, b)
       /\ tupOut' = Applied("mul_assign", [lhs |-> m, rhs |-> b], m')
  /\ UNCHANGED <<P, tupL, ret, calls, detOut, invOut, hitVars, sphereVars>>

AccessNext == GetRow \/ GetCol \/ Transpose \/ Times \/ TimesAssign

SpecAccess == AccessInit /\ [][AccessNext]_vars

----------------------------------------------------------------------------
(* A caller that intersects one ray with the unit sphere twice: with       *)
(* Sphere::intersect of shapes/core.rs and with Shape::intersect of        *)
(* shapes/sphere.rs on a sphere whose transform is the identity.           *)

LegacyInit ==
  /\ P = "f64"
  /\ sphere = Sphere_new(1)
  /\ ray \in {Ray_new(o, d) : o \in Origins, d \in Directions}
  /\ ixs = NotCalled(<<>>)
  /\ TupIdle
  /\ HitIdle
  /\ MatIdle

(* Sphere::new_unit().intersect(ray) *)
CoreIntersect ==
  Apply("core_intersect", ray, core_intersect(core_new_unit, ray))

LegacyNext == CoreIntersect \/ Intersect

SpecLegacy == LegacyInit /\ [][LegacyNext]_vars

----------------------------------------------------------------------------
(* A caller that builds a transform with separate builder calls on m,      *)
(* starting from the identity, and then applies it to a point or a vector. *)

(* Points and vectors of the tests, as Tuple::new builds them. *)
RowProbes ==
  { Point3(Point3_new(Z(-3), Z(4), Z(5))), Point3(Point3_new(Z(1), Z(0), Z(1))),
    Vector3(Vector3_new(Z(-3), Z(4), Z(5))), Vector3(Vector3_new(Z(1), Z(2), Z(3))) }

RowInit ==
  /\ P \in ScalarTypes
  /\ MatIdle
  /\ tupL \in RowProbes
  /\ tupOut = Applied("none", zero, zero)
  /\ HitIdle
  /\ SphereIdle

(* m.scale(f64::INFINITY, 1.0, 1.0) *)
ScaleInfinite ==
  /\ P = "f64"
  /\ Store("m", scale(m, Inf, one, one),
           [tgt |-> "m", op |-> "scale", args |-> <<Inf, one, one>>,
            angle |-> "0"])

(* The builder calls are made on m, before the matrix is applied. *)
OnReceiver(A) ==
  /\ tupOut.op = "none"
  /\ A
  /\ AllOnM(calls')

RowNext ==
  \/ OnReceiver(Translate)
  \/ OnReceiver(Scale)
  \/ OnReceiver(ScaleInfinite)
  \/ OnReceiver(RotateX)
  \/ OnReceiver(RotateY)
  \/ OnReceiver(RotateZ)
  \/ OnReceiver(Shear)
  \/ OnReceiver(ToIdentity)
  \/ MatrixTimes

SpecRow == RowInit /\ [][RowNext]_vars

----------------------------------------------------------------------------
(* Properties of hit *)

HitCalled == hitOut # Pending

AllFinite(s) == \A i \in 1..Len(s) : IsFinite(s[i].t)

SomeVisible(s) == \E i \in 1..Len(s) : Ge(s[i].t, zero)

(* C1: for every non-empty sequence with at least one entry of t >= 0, in  *)
(* whatever order, hit returns Some(e) and e.t is the minimum t among the  *)
(* entries with t >= 0.                                                    *)
C1_HitIsMinVisible ==
  (HitCalled /\ Len(xs) > 0 /\ AllFinite(xs) /\ SomeVisible(xs)) =>
    /\ hitOut.kind = "Some"
    /\ Ge(hitOut.val.t, zero)
    /\ \A i \in 1..Len(xs) : Ge(xs[i].t, zero) => Le(hitOut.val.t, xs[i].t)

(* C4: hit of the empty sequence returns None, a normal outcome, and does  *)
(* not panic.                                                              *)
C4_HitEmptyIsNone ==
  (HitCalled /\ Len(xs) = 0) => hitOut = None

(* C5: for every non-empty sequence, hit returns None exactly when no      *)
(* entry has t >= 0; an entry with t = 0 is visible.                       *)
C5_NoneIffNoVisible ==
  (HitCalled /\ Len(xs) > 0) => (hitOut = None <=> ~SomeVisible(xs))

(* The fixture of C5: t values -1, -2 in scan order, hit answered None.    *)
C5_Witness ==
  /\ Len(xs) = 2
  /\ xs[1].t = Z(-1)
  /\ xs[2].t = Z(-2)
  /\ hitOut = None

----------------------------------------------------------------------------
(* Properties of Sphere::intersect *)

IntersectCalled == ixs.kind # "none"

(* The t values of an outcome of intersect, in order. *)
TsOf(o) == [i \in 1..Len(o.val) |-> o.val[i].t]

(* The dot product over x, y and z. *)
Dot3(u, v) == RAdd(RAdd(RMul(u.x, v.x), RMul(u.y, v.y)), RMul(u.z, v.z))

(* The t values of the unit sphere at the origin for the ray r, from the   *)
(* quadratic with the three-component dot product, in the arithmetic of T. *)
UnitSphereTs(T, r) ==
  LET o == Point3_sub(r.origin, Point3_zero)
      a == Dot3(r.direction, r.direction)
      b == RMul(Z(2), Dot3(r.direction, o))
      c == RSub(Dot3(o, o), one)
      disc == RSub(RMul(b, b), RMul(RMul(Z(4), a), c))
  IN  IF Lt(disc, zero) THEN <<>>
      ELSE <<Div(T, RSub(RNeg(b), Sqrt(T, disc)), RMul(Z(2), a)),
             Div(T, RAdd(RNeg(b), Sqrt(T, disc)), RMul(Z(2), a))>>

RayOf(ox, oy, oz, dx, dy, dz) ==
  Ray_new(Point3_new(Z(ox), Z(oy), Z(oz)), Vector3_new(Z(dx), Z(dy), Z(dz)))

(* C2: on the identity-transform sphere intersect returns the roots of the *)
(* quadratic a = d.d, b = 2 d.(o - origin), c = (o - origin).(o - origin)  *)
(* - 1 taken with the three-component dot product, and nothing when the    *)
(* discriminant is negative; the five rays of the tests give (4,6), (5,5), *)
(* (-1,1), (-6,-4) and no intersection.                                    *)
C2_IdentityIntersect ==
  (IntersectCalled /\ sphere.transform = identity) =>
    /\ ixs.kind = "ok"
    /\ TsOf(ixs) = UnitSphereTs(P, ray)
    /\ ray = RayOf(0, 0, -5, 0, 0, 1) => TsOf(ixs) = <<Z(4), Z(6)>>
    /\ ray = RayOf(0, 1, -5, 0, 0, 1) => TsOf(ixs) = <<Z(5), Z(5)>>
    /\ ray = RayOf(0, 0, 0, 0, 0, 1) => TsOf(ixs) = <<Z(-1), Z(1)>>
    /\ ray = RayOf(0, 0, 5, 0, 0, 1) => TsOf(ixs) = <<Z(-6), Z(-4)>>
    /\ ray = RayOf(0, 2, -5, 0, 0, 1) => TsOf(ixs) = <<>>

(* C3: on the sphere scaled by (k,k,k), k >= 1, the ray from (0,0,-5)      *)
(* along (0,0,1) gives exactly t = 5-k and t = 5+k, for an integer P too,  *)
(* without an arithmetic fault.                                            *)
C3_ScaledIntersect ==
  \A k \in 1..MaxK :
    ( /\ IntersectCalled
      /\ sphere.transform = scale(identity, Z(k), Z(k), Z(k))
      /\ ray = RayOf(0, 0, -5, 0, 0, 1) ) =>
      /\ ixs.kind = "ok"
      /\ TsOf(ixs) = <<Z(5 - k), Z(5 + k)>>

Invertible(T, mat) == determinant(mat) # zero

NonzeroDirection(r) == <<r.direction.x, r.direction.y, r.direction.z>> # <<zero, zero, zero>>

(* C11: for a ray with a nonzero direction and a sphere with an            *)
(* invertible transform, intersect returns either nothing or exactly two   *)
(* intersections with t1 <= t2, each carrying the shape passed in; a       *)
(* tangent ray gives two entries with the same t.                          *)
C11_TwoOrderedIntersections ==
  (IntersectCalled /\ NonzeroDirection(ray) /\ Invertible(P, sphere.transform)) =>
    /\ ixs.kind = "ok"
    /\ Len(ixs.val) \in {0, 2}
    /\ Len(ixs.val) = 2 =>
         /\ Le(ixs.val[1].t, ixs.val[2].t)
         /\ ixs.val[1].object = sphere
         /\ ixs.val[2].object = sphere
    /\ (sphere.transform = identity /\ ray = RayOf(0, 1, -5, 0, 0, 1)) =>
         (Len(ixs.val) = 2 /\ ixs.val[1].t = ixs.val[2].t)

(* C12: for a sphere with an invertible transform, intersect returns the   *)
(* t values of the identity-transform unit sphere for the ray transformed  *)
(* by the inverse of the transform; the sphere translated by (5,0,0) is    *)
(* missed by the ray from (0,0,-5) along (0,0,1) in integer coordinates.   *)
C12_TransformEquivalence ==
  (IntersectCalled /\ Invertible(P, sphere.transform)) =>
    /\ ixs.kind = "ok"
    /\ LET object_ray == Ray_transform(ray, inverse(P, sphere.transform).val)
           unit == intersect(P, Sphere_new(sphere.id), object_ray)
       IN  unit.kind = "ok" /\ TsOf(ixs) = TsOf(unit)
    /\ ( /\ P = "int"
         /\ sphere.transform = translate(identity, Z(5), zero, zero)
         /\ ray = RayOf(0, 0, -5, 0, 0, 1) ) => ixs.val = <<>>

----------------------------------------------------------------------------
(* Properties of determinant and inverse *)

Perms4 == {p \in [Idx4 -> Idx4] : \A i, j \in Idx4 : i # j => p[i] # p[j]}

(* The sign of a permutation: -1 to the number of inversions. *)
PermSign(p) ==
  LET inversions == Cardinality({ij \in Idx4 \X Idx4 :
                                   ij[1] < ij[2] /\ p[ij[1]] > p[ij[2]]})
  IN  IF inversions % 2 = 0 THEN 1 ELSE -1

(* One term of the permutation sum. *)
LeibnizTerm(M, p) ==
  RMul(Z(PermSign(p)),
       RMul(RMul(M[0][p[0]], M[1][p[1]]), RMul(M[2][p[2]], M[3][p[3]])))

RECURSIVE LeibnizSum(_, _)
LeibnizSum(M, S) ==
  IF S = {} THEN zero
  ELSE LET p == CHOOSE q \in S : TRUE
       IN  RAdd(LeibnizTerm(M, p), LeibnizSum(M, S \ {p}))

(* The determinant as the sum over the permutations. *)
LeibnizDet(M) == LeibnizSum(M, Perms4)

InverseCalled == invOut.kind # "none"

(* C6: inverse panics when the determinant is exactly zero and returns a   *)
(* matrix for every matrix whose determinant is not zero.                  *)
C6_InversePanicsIffSingular ==
  InverseCalled =>
    /\ LeibnizDet(m) = zero => invOut.kind = "panic"
    /\ LeibnizDet(m) # zero => invOut.kind = "ok"

(* The singular matrix m2 of test_matrix_inversion made inverse panic. *)
C6_Witness ==
  /\ m = Matrix4_new(<<<<-4, 2, -2, -3>>, <<9, 6, 2, 6>>,
                       <<0, -5, 1, -5>>, <<0, 0, 0, 0>>>>)
  /\ invOut.kind = "panic"

ProbeMatrices ==
  { Matrix4_new(<<<<3, -9, 7, 3>>, <<3, -8, 2, -9>>,
                  <<-4, 4, 4, 1>>, <<-6, 5, 1, 1>>>>),
    Matrix4_new(<<<<1, 2, 0, 0>>, <<0, 1, 0, 3>>,
                  <<0, 0, 1, 0>>, <<-1, 0, 0, 1>>>>) }

ProbeTuples ==
  { Point3_new(Z(1), Z(2), Z(3)), Vector3_new(Z(1), Z(2), Z(3)),
    Point3_new(Z(-3), Z(4), Z(5)) }

(* C9: for every matrix M with a nonzero determinant M * M.inverse() is    *)
(* the identity within EPSILON, (A * M) * M.inverse() == A, and            *)
(* (M * M.inverse()) applied to a point or vector gives it back.           *)
C9_InverseRoundTrip ==
  invOut.kind = "ok" =>
    /\ Matrix4_eq(Mul(m, invOut.val), identity)
    /\ \A A \in ProbeMatrices : Matrix4_eq(Mul(Mul(A, m), invOut.val), A)
    /\ \A v \in ProbeTuples :
         Point3_equal(MulTuple(Mul(m, invOut.val), v), v)

(* C10: determinant, the Laplace expansion along row 0 through Matrix3 and *)
(* Matrix2, is the permutation-sum determinant; the 2x2, 3x3 and 4x4       *)
(* fixtures give 17, -196 and -4071.                                       *)
C10_DeterminantIsLeibniz ==
  /\ detOut.kind = "ok" => detOut.val = LeibnizDet(m)
  /\ (detOut.kind = "ok" /\ m = Matrix4_new(<<<<-2, -8, 3, 5>>, <<-3, 1, 7, 3>>,
                                                <<1, 2, -9, 6>>, <<-6, 7, 7, -9>>>>))
       => detOut.val = Z(-4071)
  /\ Matrix3_determinant([r \in 0..2 |-> [c \in 0..2 |->
        Z(<<<<1, 2, 6>>, <<-5, 8, -4>>, <<2, 6, 4>>>>[r + 1][c + 1])]]) = Z(-196)
  /\ Matrix2_determinant([r \in 0..1 |-> [c \in 0..1 |->
        Z(<<<<1, 5>>, <<-3, 2>>>>[r + 1][c + 1])]]) = Z(17)

(* determinant was called on the 4x4 fixture and answered -4071. *)
C10_Witness ==
  /\ m = Matrix4_new(<<<<-2, -8, 3, 5>>, <<-3, 1, 7, 3>>,
                       <<1, 2, -9, 6>>, <<-6, 7, 7, -9>>>>)
  /\ detOut = Ok(Z(-4071))

----------------------------------------------------------------------------
(* Properties of the transform builders *)

Rows4(rows) == [r \in Idx4 |-> [c \in Idx4 |-> rows[r + 1][c + 1]]]

(* The elementary matrix of a builder call: the identity with the entries  *)
(* of the transform substituted.                                           *)
Elementary(T, call) ==
  LET a == call.args
      cs == p_cos(T, call.angle)
      sn == p_sin(T, call.angle)
      o == one
      z == zero
  IN  CASE call.op = "translate" ->
             Rows4(<<<<o, z, z, a[1]>>, <<z, o, z, a[2]>>,
                     <<z, z, o, a[3]>>, <<z, z, z, o>>>>)
        [] call.op = "scale" ->
             Rows4(<<<<a[1], z, z, z>>, <<z, a[2], z, z>>,
                     <<z, z, a[3], z>>, <<z, z, z, o>>>>)
        [] call.op = "rotate_x" ->
             Rows4(<<<<o, z, z, z>>, <<z, cs, RNeg(sn), z>>,
                     <<z, sn, cs, z>>, <<z, z, z, o>>>>)
        [] call.op = "rotate_y" ->
             Rows4(<<<<cs, z, sn, z>>, <<z, o, z, z>>,
                     <<RNeg(sn), z, cs, z>>, <<z, z, z, o>>>>)
        [] call.op = "rotate_z" ->
             Rows4(<<<<cs, RNeg(sn), z, z>>, <<sn, cs, z, z>>,
                     <<z, z, o, z>>, <<z, z, z, o>>>>)
        [] call.op = "shear" ->
             Rows4(<<<<o, a[1], a[2], z>>, <<a[3], o, a[4], z>>,
                     <<a[5], a[6], o, z>>, <<z, z, z, o>>>>)

(* The matrix M written out entry by entry, so that a product of products *)
(* is computed once and not once for every entry that reads it.            *)
Entries(M) ==
  LET row(r) == (0 :> M[r][0]) @@ (1 :> M[r][1]) @@ (2 :> M[r][2]) @@ (3 :> M[r][3])
  IN  (0 :> row(0)) @@ (1 :> row(1)) @@ (2 :> row(2)) @@ (3 :> row(3))

(* E_n * ... * E_1 for the first n calls of cs. *)
RECURSIVE LeftProduct(_, _, _)
LeftProduct(T, cs, n) ==
  IF n = 0 THEN identity
  ELSE Entries(Mul(Elementary(T, cs[n]), LeftProduct(T, cs, n - 1)))

(* The chain m.rotate_x(a).scale(s).translate(t) on m = identity. *)
IsChainRST(cs) ==
  /\ Len(cs) = 3
  /\ cs[1].tgt = "m" /\ cs[1].op = "rotate_x"
  /\ cs[2].tgt = "ret" /\ cs[2].op = "scale"
  /\ cs[3].tgt = "ret" /\ cs[3].op = "translate"

ProbePoints ==
  { Point3_new(Z(1), Z(0), Z(1)), Point3_new(Z(-3), Z(4), Z(5)),
    Point3_new(Z(0), Z(1), Z(0)) }

(* C7: identity().rotate_x(a).scale(s).translate(t) returns                *)
(* Translate(t) * Scale(s) * RotateX(a), and p * M is the point obtained   *)
(* by rotating, then scaling, then translating p one call at a time; the   *)
(* point (1,0,1) with a quarter turn, scale 5 and translate (10,5,7) goes  *)
(* to (15,0,7).                                                            *)
C7_ChainComposes ==
  IsChainRST(calls) =>
    LET a == calls[1].angle
        s == calls[2].args
        t == calls[3].args
        R == Elementary(P, calls[1])
        S == Elementary(P, calls[2])
        Tr == Elementary(P, calls[3])
        stepwise(p) ==
          TupleMul(TupleMul(TupleMul(p, rotate_x(P, identity, a)),
                            scale(identity, s[1], s[2], s[3])),
                   translate(identity, t[1], t[2], t[3]))
    IN  /\ Matrix4_eq(ret, Mul(Tr, Mul(S, R)))
        /\ \A p \in ProbePoints : Point3_equal(TupleMul(p, ret), stepwise(p))
        /\ (a = "PI/2" /\ s = <<Z(5), Z(5), Z(5)>> /\ t = <<Z(10), Z(5), Z(7)>>)
             => Point3_equal(TupleMul(Point3_new(Z(1), Z(0), Z(1)), ret),
                             Point3_new(Z(15), Z(0), Z(7)))

(* The chain of test_matrix_transformations was made and sends (1,0,1) to  *)
(* (15,0,7).                                                               *)
C7_Witness ==
  /\ IsChainRST(calls)
  /\ calls[1].angle = "PI/2"
  /\ calls[2].args = <<Z(5), Z(5), Z(5)>>
  /\ calls[3].args = <<Z(10), Z(5), Z(7)>>
  /\ TupleMul(Point3_new(Z(1), Z(0), Z(1)), ret) = Point3_new(Z(15), Z(0), Z(7))

(* C8: a builder call on the receiver m leaves m = E * M_old and returns   *)
(* that value; after any sequence of separate calls on m, starting from    *)
(* the identity, m = E_n * ... * E_1.                                      *)
C8_BuilderLeftMultiplies ==
  /\ [](AllOnM(calls) => (m = LeftProduct(P, calls, Len(calls)) /\ ret = m))
  /\ [][(Len(calls') = Len(calls) + 1 /\ calls'[Len(calls')].tgt = "m") =>
          /\ m' = Mul(Elementary(P, calls'[Len(calls')]), m)
          /\ ret' = m']_vars

(* Three separate calls on m: shear, then scale, then translate. *)
C8_Witness ==
  /\ Len(calls) = 3
  /\ AllOnM(calls)
  /\ calls[1].op = "shear"
  /\ calls[2].op = "scale"
  /\ calls[3].op = "translate"
  /\ m = Mul(Elementary(P, calls[3]),
              Mul(Elementary(P, calls[2]), Elementary(P, calls[1])))

----------------------------------------------------------------------------
(* Properties of a matrix applied to a tuple *)

(* result[row] = sum over k of M[row][k] * v[k], written out. *)
RowSums(M, v) ==
  LET vk == <<v.x, v.y, v.z, v.w>>
      sum(row) == RAdd(RAdd(RAdd(RMul(M[row][0], vk[1]), RMul(M[row][1], vk[2])),
                            RMul(M[row][2], vk[3])),
                       RMul(M[row][3], vk[4]))
  IN  [x |-> sum(0), y |-> sum(1), z |-> sum(2), w |-> sum(3)]

Transposed(M) == [r \in Idx4 |-> [c \in Idx4 |-> M[c][r]]]

(* C13: v * M and M * v are the same tuple, component for component, the   *)
(* row sums of M with v, for a Vector3 and a Point3 of any weight; the     *)
(* matrix and the vector (1,2,3,1) of the multiplication test give         *)
(* (18,24,33,1).                                                           *)
C13_TupleTimesMatrixIsMatrixTimesTuple ==
  tupOut.op \in {"tuple*matrix", "matrix*tuple"} =>
    /\ tupOut.val.val = RowSums(m, tupL.val)
    /\ tupOut.val.val = TupleMul(tupL.val, m)
    /\ tupOut.val.val = MulTuple(m, tupL.val)
    /\ tupOut.val.ty = tupL.ty
    /\ ( /\ m = Matrix4_new(MulFixture)
         /\ tupL.val = Vector3_xyzw(Z(1), Z(2), Z(3), Z(1)) ) =>
         tupOut.val.val = Vector3_xyzw(Z(18), Z(24), Z(33), Z(1))

(* v * M was computed for a matrix that is not symmetric and a tuple on    *)
(* which M and its transpose differ.                                       *)
C13_Witness ==
  /\ tupOut.op = "tuple*matrix"
  /\ tupL.val.w = Z(2)
  /\ tupOut.val.val # RowSums(Transposed(m), tupL.val)
  /\ tupOut.val.val = MulTuple(m, tupL.val)

TranslatedBy(a) == calls = <<Call("m", "translate", a, "0")>>

PointAt(x, y, z) == Point3(Point3_new(Z(x), Z(y), Z(z)))

(* C14: a Point3 (x,y,z) with w = 1 times identity().translate(a,b,c) is   *)
(* the point (x+a, y+b, z+c) with w = 1, and times the inverse of that     *)
(* matrix it is (x-a, y-b, z-c); (-3,4,5) translated by (5,-3,2) is        *)
(* (2,1,7) and inversely translated (-8,7,3).                              *)
C14_TranslatePoint ==
  \A a \in ShiftArgs :
    (TranslatedBy(a) /\ tupL.ty = "Point3" /\ tupL.val.w = one) =>
      LET p == tupL.val
          moved(sign) ==
            Point3(Point3_new(RAdd(p.x, Z(sign * a[1])), RAdd(p.y, Z(sign * a[2])),
                              RAdd(p.z, Z(sign * a[3]))))
      IN  /\ tupOut.op = "tuple*matrix" => tupOut.val = moved(1)
          /\ tupOut.op = "tuple*inverse" => tupOut.val = moved(-1)
          /\ (tupL = PointAt(-3, 4, 5) /\ a = <<5, -3, 2>>) =>
                /\ tupOut.op = "tuple*matrix" => tupOut.val = PointAt(2, 1, 7)
                /\ tupOut.op = "tuple*inverse" => tupOut.val = PointAt(-8, 7, 3)

(* The point (-3,4,5) was multiplied by the inverse of translate(5,-3,2).  *)
C14_Witness ==
  /\ TranslatedBy(<<5, -3, 2>>)
  /\ tupL = PointAt(-3, 4, 5)
  /\ tupOut.op = "tuple*inverse"
  /\ tupOut.val = PointAt(-8, 7, 3)

(* C15: a Vector3 built by any of the constructors times                   *)
(* identity().translate(a,b,c) is the same Vector3 in every component.     *)
C15_TranslateVectorNoEffect ==
  \A a \in ShiftArgs :
    (TranslatedBy(a) /\ tupL.ty = "Vector3" /\ tupOut.op = "tuple*matrix") =>
      tupOut.val = tupL

(* C15, amended: a Vector3 (x,y,z,w) times identity().translate(a,b,c) is  *)
(* (x + w*a, y + w*b, z + w*c, w): the same Vector3 when w = 0, which is   *)
(* what every constructor but Axis::XYZW builds.                           *)
C15_TranslateFreeVectorNoEffect ==
  \A a \in ShiftArgs :
    (TranslatedBy(a) /\ tupL.ty = "Vector3" /\ tupOut.op = "tuple*matrix") =>
      LET v == tupL.val
      IN  /\ tupOut.val =
               Vector3(Tuple(RAdd(v.x, RMul(v.w, Z(a[1]))),
                             RAdd(v.y, RMul(v.w, Z(a[2]))),
                             RAdd(v.z, RMul(v.w, Z(a[3]))), v.w))
          /\ v.w = zero => tupOut.val = tupL

(* A Vector3 with w = 0 and no zero coordinate was translated. *)
C15_Witness ==
  /\ TranslatedBy(<<5, -3, 2>>)
  /\ tupL = Vector3(Vector3_new(Z(1), Z(-1), Z(1)))
  /\ tupOut.op = "tuple*matrix"
  /\ tupOut.val = tupL

----------------------------------------------------------------------------
(* Properties of the tuple arithmetic *)

IsVector == tupL.ty = "Vector3"

IsPoint == tupL.ty = "Point3"

BuiltPoint == IsPoint /\ tupL.val.w = one

(* C16: the weight closure table.  Vector + Vector, Vector - Vector,       *)
(* -Vector, Vector * s and Vector / s give a Vector with w = 0; Point +    *)
(* Vector and Point - Vector give a Point with w = 1 when the point has    *)
(* w = 1 and the vector w = 0; Point - Point gives a Vector with w = 0;    *)
(* Point * s gives a Point with weight w * s.                              *)
C16_WeightClosure ==
  /\ (IsVector /\ tupOut.op \in {"neg", "mul", "div"}) =>
       (tupOut.val.ty = "Vector3" /\ tupOut.val.val.w = zero)
  /\ (IsVector /\ tupOut.op \in {"add", "sub"} /\ tupOut.rhs.ty = "Vector3") =>
       (tupOut.val.ty = "Vector3" /\ tupOut.val.val.w = zero)
  /\ ( /\ BuiltPoint /\ tupOut.op \in {"add", "sub"}
       /\ tupOut.rhs.ty = "Vector3" /\ tupOut.rhs.val.w = zero ) =>
       (tupOut.val.ty = "Point3" /\ tupOut.val.val.w = one)
  /\ (IsPoint /\ tupOut.op = "sub" /\ tupOut.rhs.ty = "Point3") =>
       (tupOut.val.ty = "Vector3" /\ tupOut.val.val.w = zero)
  /\ (IsPoint /\ tupOut.op = "mul") =>
       (tupOut.val.ty = "Point3" /\ tupOut.val.val.w = RMul(tupL.val.w, tupOut.rhs))

(* A Point3 of weight 2 was multiplied by -3: the weight is -6. *)
C16_Witness ==
  /\ IsPoint
  /\ tupL.val.w = Z(2)
  /\ tupOut.op = "mul"
  /\ tupOut.rhs = Z(-3)
  /\ tupOut.val.val.w = Z(-6)

(* C17: the negation of the Point3 built from (x,y,z) compares equal to    *)
(* the Point3 built from (-x,-y,-z).                                       *)
C17_NegPointEqualsPointOfNegs ==
  (BuiltPoint /\ tupOut.op = "neg") =>
    Point3_equal(tupOut.val.val,
                 Point3_new(RNeg(tupL.val.x), RNeg(tupL.val.y), RNeg(tupL.val.z)))

(* C18: the Point3 built from (x,y,z) divided by s, s not 0 or 1, is       *)
(* equal() to the Point3 built from (x/s, y/s, z/s).                       *)
C18_DivPointEqualsPointOfQuotients ==
  (BuiltPoint /\ tupOut.op = "div" /\ tupOut.rhs \notin {zero, one}) =>
    Point3_equal(Point3_new(Div("f64", tupL.val.x, tupOut.rhs),
                            Div("f64", tupL.val.y, tupOut.rhs),
                            Div("f64", tupL.val.z, tupOut.rhs)),
                 tupOut.val.val)

(* C19: both implementations of dot return a.x*b.x + a.y*b.y + a.z*b.z,    *)
(* so they agree; dot((1,2,3),(2,3,4)) = 20.                               *)
C19_DotImplementationsAgree ==
  tupOut.op \in {"dot", "vecops_dot"} =>
    /\ tupOut.val = Dot3(tupL.val, tupOut.rhs.val)
    /\ tupOut.val = dot(tupL.val, tupOut.rhs.val)
    /\ tupOut.val = VecOps_dot(tupL.val, tupOut.rhs.val)
    /\ ( /\ tupL = Vector3(Vector3_new(Z(1), Z(2), Z(3)))
         /\ tupOut.rhs = Vector3(Vector3_new(Z(2), Z(3), Z(4))) ) =>
         tupOut.val = Z(20)

(* |a - b| < EPSILON on the rationals; a difference that involves a        *)
(* non-finite value is not below EPSILON.                                  *)
CloseBy(a, b) ==
  /\ IsFinite(a)
  /\ IsFinite(b)
  /\ LET g == GCD(a[2], b[2])
     IN  Abs(a[1] * (b[2] \div g) - b[1] * (a[2] \div g)) * 10000
           < (a[2] \div g) * b[2]

Compared(ty) == IF ty = "Vector3" THEN {"x", "y", "z"} ELSE Components

SelfEqual(t) ==
  IF t.ty = "Vector3" THEN Vector3_equal(t.val, t.val) ELSE Point3_equal(t.val, t.val)

(* C20: equality of tuples and matrices is reflexive, and two values are   *)
(* equal exactly when every compared component differs by less than        *)
(* EPSILON = 0.0001: x, y, z and w of a Point3, x, y and z of a Vector3,   *)
(* the sixteen entries of a Matrix4.                                       *)
C20_EpsilonEquality ==
  /\ SelfEqual(tupL)
  /\ tupOut.op \in {"add", "sub", "neg", "mul", "div"} => SelfEqual(tupOut.val)
  /\ tupOut.op = "equal" =>
       tupOut.val = (\A c \in Compared(tupL.ty) :
                       CloseBy(tupL.val[c], tupOut.rhs.val[c]))
  /\ tupOut.op = "matrix_eq" =>
       /\ Matrix4_eq(tupOut.rhs.lhs, tupOut.rhs.lhs)
       /\ Matrix4_eq(tupOut.rhs.rhs, tupOut.rhs.rhs)
       /\ tupOut.val = (\A r \in Idx4, c \in Idx4 :
                          CloseBy(tupOut.rhs.lhs[r][c], tupOut.rhs.rhs[r][c]))

----------------------------------------------------------------------------
(* Properties of Ray::position *)

(* C21: Ray::position(ray, t) is origin + direction * t in x, y and z, for *)
(* t negative and zero too; for an origin of weight 1 and a direction of   *)
(* weight 0 it is a Point3 of weight 1; from (2,3,4) along (1,0,0), t = 0  *)
(* gives (2,3,4), t = 1 gives (3,3,4) and t = -1 gives (1,3,4).            *)
C21_PositionIsOriginPlusDirectionTimesT ==
  tupOut.op = "position" =>
    LET o == tupL.val
        d == tupOut.rhs.direction
        t == tupOut.rhs.t
        p == tupOut.val.val
    IN  /\ tupOut.val.ty = "Point3"
        /\ p.x = RAdd(o.x, RMul(d.x, t))
        /\ p.y = RAdd(o.y, RMul(d.y, t))
        /\ p.z = RAdd(o.z, RMul(d.z, t))
        /\ (o.w = one /\ d.w = zero) => p.w = one
        /\ (o = Point3_new(Z(2), Z(3), Z(4)) /\ d = Vector3_new(one, zero, zero)) =>
             /\ t = zero => p = Point3_new(Z(2), Z(3), Z(4))
             /\ t = one => p = Point3_new(Z(3), Z(3), Z(4))
             /\ t = Z(-1) => p = Point3_new(Z(1), Z(3), Z(4))

(* position was evaluated at a negative t on a ray that moves in x and z. *)
C21_Witness ==
  /\ tupOut.op = "position"
  /\ Lt(tupOut.rhs.t, zero)
  /\ tupL.val.w = one
  /\ tupOut.rhs.direction.w = zero
  /\ tupOut.rhs.direction.x # zero
  /\ tupOut.rhs.direction.z # zero
  /\ tupOut.val.val # tupL.val

----------------------------------------------------------------------------
(* Properties of the Matrix4 accessors and products *)

(* The dot product of columns r and c of M. *)
ColumnDot(M, r, c) ==
  RAdd(RAdd(RAdd(RMul(M[0][r], M[0][c]), RMul(M[1][r], M[1][c])),
            RMul(M[2][r], M[2][c])),
       RMul(M[3][r], M[3][c]))

IndexOf(index) ==
  CASE index = "One" -> 0 [] index = "Two" -> 1
    [] index = "Three" -> 2 [] index = "Four" -> 3

(* C23: get_row(index) is the selected row of the matrix, in column order. *)
C23_GetRowReturnsRow ==
  tupOut.op = "get_row" =>
    \A c \in Idx4 : tupOut.val[c] = m[IndexOf(tupOut.rhs)][c]

(* C24: get_col(index) is the selected column of the matrix, in row order. *)
C24_GetColReturnsColumn ==
  tupOut.op = "get_col" =>
    \A r \in Idx4 : tupOut.val[r] = m[r][IndexOf(tupOut.rhs)]

(* C28: a *= b leaves in a the product a_old * b that the operator *       *)
(* returns.                                                                *)
C28_MulAssignEqualsMul ==
  tupOut.op = "mul_assign" => m = Mul(tupOut.rhs.lhs, tupOut.rhs.rhs)

----------------------------------------------------------------------------
(* hit and NaN *)

(* C25: for every non-empty sequence, wherever its NaN entries stand, hit  *)
(* returns None or an entry whose t is not NaN.                            *)
C25_HitNeverSelectsNaN ==
  (HitCalled /\ Len(xs) > 0) =>
    \/ hitOut = None
    \/ hitOut.kind = "Some" /\ ~IsNaN(hitOut.val.t)

----------------------------------------------------------------------------
(* Sphere::intersect of shapes/core.rs *)

(* C26: the intersect of shapes/core.rs returns None when the discriminant *)
(* is negative and otherwise Some((t1, t2)) with the roots                 *)
(* (-b -+ sqrt(disc)) / (2 a) of the three-component quadratic, for a      *)
(* direction of any length, and these are the t values Shape::intersect of *)
(* shapes/sphere.rs returns on the identity-transform sphere.              *)
C26_LegacyIntersectRoots ==
  tupOut.op = "core_intersect" =>
    LET ts == UnitSphereTs("f64", ray)
    IN  /\ ts = <<>> => tupOut.val = core_None
        /\ ts # <<>> => tupOut.val = core_Some(ts[1], ts[2])
        /\ IntersectCalled => (ixs.kind = "ok" /\ TsOf(ixs) = ts)

----------------------------------------------------------------------------
(* The receiver of a chain of builder calls *)

OnM(call) == call.tgt = "m"

(* m.op1(..).op2(..).op3(..): the first call on m, the others chained. *)
IsChain(cs) ==
  /\ Len(cs) = 3
  /\ cs[1].tgt = "m" /\ cs[2].tgt = "ret" /\ cs[3].tgt = "ret"

(* C27: a chained call acts on the copy the call before it returned and    *)
(* leaves the variable m alone: after m.op1(..).op2(..).op3(..) on the     *)
(* identity m is E1 and the chain returned E3 * E2 * E1, and in every      *)
(* state m is the product of the calls made on m itself, so a chain        *)
(* repeated on m starts from what the first calls of the chains before it  *)
(* left there.                                                             *)
C27_ChainChangesReceiverOnce ==
  /\ [][(Len(calls') = Len(calls) + 1 /\ calls'[Len(calls')].tgt = "ret") =>
          /\ m' = m
          /\ ret' = Mul(Elementary(P, calls'[Len(calls')]), ret)]_vars
  /\ [](LET onM == SelectSeq(calls, OnM)
        IN  m = LeftProduct(P, onM, Len(onM)))
  /\ [](IsChain(calls) =>
          /\ m = Elementary(P, calls[1])
          /\ ret = LeftProduct(P, calls, 3))

(* A chain of three calls was made and the value it returned is not the    *)
(* value of m.                                                             *)
C27_Witness ==
  /\ IsChain(calls)
  /\ calls[1].op = "rotate_y"
  /\ calls[2].op = "scale"
  /\ calls[3].op = "translate"
  /\ m # ret
  /\ m # identity

----------------------------------------------------------------------------
(* A sphere with a singular transform *)

(* C29: set_transform stores any matrix, and intersect on a sphere whose   *)
(* transform has determinant 0 panics, whatever the ray, and returns no    *)
(* sequence of intersections.                                              *)
C29_SingularTransformPanics ==
  (IntersectCalled /\ LeibnizDet(sphere.transform) = zero) => ixs = Panic(<<>>)

(* A sphere was given identity().scale(0,1,1) and intersect on it          *)
(* panicked.                                                               *)
C29_Witness ==
  /\ sphere.transform = scale(identity, zero, one, one)
  /\ ixs.kind = "panic"
  /\ P = "f64"

----------------------------------------------------------------------------
(* The last row of a transform *)

LastRow == [c \in Idx4 |-> IF c = 3 THEN one ELSE zero]

FiniteMatrix(M) == \A r \in Idx4, c \in Idx4 : IsFinite(M[r][c])

(* C30: after any sequence of translate, scale, rotate_x, rotate_y,        *)
(* rotate_z and shear calls on a receiver that starts as the identity, the *)
(* last row of the matrix is [0,0,0,1], and applying the matrix keeps the  *)
(* weight 1 of a point and the weight 0 of a vector.                       *)
C30_LastRowIsAffine ==
  /\ m[3] = LastRow
  /\ tupOut.op = "matrix*tuple" => tupOut.val.val.w = tupL.val.w

(* C30, amended: the same, as long as every entry of the matrix is finite. *)
C30_FiniteLastRowIsAffine ==
  FiniteMatrix(m) =>
    /\ m[3] = LastRow
    /\ tupOut.op = "matrix*tuple" => tupOut.val.val.w = tupL.val.w

(* Three builder calls, a shear and a translate among them, built a matrix *)
(* with finite entries that moved the point it was applied to.             *)
C30_Witness ==
  /\ Len(calls) = 3
  /\ \E i \in 1..3 : calls[i].op = "shear"
  /\ \E i \in 1..3 : calls[i].op = "translate"
  /\ FiniteMatrix(m)
  /\ tupOut.op = "matrix*tuple"
  /\ tupL.ty = "Point3"
  /\ tupOut.val.val # tupL.val
  /\ tupOut.val.val.w = one

====
